---------------------------- MODULE Spec2Model ----------------------------
(***************************************************************************)
(* Model of the backtesting engine of src/backtest.py: run_backtest (the   *)
(* bar-by-bar execution loop, the construction of the equity and trade     *)
(* tables) and compute_metrics (the aggregation of the ledger).            *)
(*                                                                         *)
(* The code computes on IEEE doubles; the model computes on exact          *)
(* rationals <<n, d>> (d > 0, lowest terms), so every equality below is an *)
(* equality of the exact values.  A numpy division by zero does not raise: *)
(* it yields inf, -inf or nan; FDiv models that with tagged values.        *)
(***************************************************************************)
EXTENDS Integers, Sequences, FiniteSets, TLC

VARIABLES
    call,          \* which entry point was called: "run_backtest" | "compute_metrics"
    df,            \* run_backtest's df: the bar sequence (rows Date, OHLC, ML_Signal)
    config,        \* the BacktestConfig
    pc,            \* position: "loop" | "metrics" | "returned" | "raised"
    i,             \* the loop index of run_backtest (0-based, as in the code)
    capital,       \* run_backtest's running capital
    trades,        \* run_backtest's list of Trade
    equity_curve,  \* run_backtest's list of {'Date', 'Equity'}
    equity_df,     \* the equity table handed to compute_metrics (None before)
    trades_df,     \* the trade table handed to compute_metrics (None before)
    metrics,       \* the values compute_metrics computed (None before)
    error,         \* the exception that ended the call (None if none)
    result         \* what run_backtest returned (None if nothing)

vars == <<call, df, config, pc, i, capital, trades, equity_curve, equity_df,
          trades_df, metrics, error, result>>

None == [none |-> TRUE]

-----------------------------------------------------------------------------
(* Exact rational arithmetic: the float operators +, -, *, /, <=, abs.     *)

RECURSIVE GCD(_, _)
GCD(a, b) == IF b = 0 THEN a ELSE GCD(b, a % b)

Abs(n) == IF n < 0 THEN -n ELSE n

Norm(n, d) ==
    LET s == IF d < 0 THEN -1 ELSE 1
        g == GCD(Abs(n), Abs(d))
    IN  <<(s * n) \div g, (s * d) \div g>>

R(n) == <<n, 1>>
Q(n, d) == Norm(n, d)
RZero == R(0)
ROne == R(1)

RAdd(a, b) == Norm(a[1] * b[2] + b[1] * a[2], a[2] * b[2])
RNeg(a) == <<-a[1], a[2]>>
RSub(a, b) == RAdd(a, RNeg(b))
RMul(a, b) ==
    LET x == Norm(a[1], b[2])
        y == Norm(b[1], a[2])
    IN  Norm(x[1] * y[1], x[2] * y[2])
RDiv(a, b) == RMul(a, Norm(b[2], b[1]))
RLe(a, b) == a[1] * b[2] <= b[1] * a[2]
RLt(a, b) == a[1] * b[2] < b[1] * a[2]
RGe(a, b) == RLe(b, a)
RGt(a, b) == RLt(b, a)
RAbs(a) == <<Abs(a[1]), a[2]>>

RECURSIVE RSum(_)
RSum(s) == IF s = <<>> THEN RZero ELSE RAdd(s[1], RSum(Tail(s)))

(* A float value that may be non-finite. *)
Num(r) == [k |-> "num", v |-> r]
Inf == [k |-> "inf"]
NegInf == [k |-> "-inf"]
NaN == [k |-> "nan"]

(* numpy's float division: x / 0 is +-inf, 0 / 0 is nan, nothing raises. *)
FDiv(a, b) ==
    IF b = RZero
    THEN IF a = RZero THEN NaN ELSE IF RGt(a, RZero) THEN Inf ELSE NegInf
    ELSE Num(RDiv(a, b))

-----------------------------------------------------------------------------
(* Inputs. *)

MaxBars == 3
MaxLedger == 3

PipDen == 10000
pip == Q(1, PipDen)

(* OHLC of a bar, as <<Open, High, Low, Close>>; bars reach the engine     *)
(* with Low <= Open, Close <= High.                                        *)
Shapes ==
    { <<2, 2, 2, 2>>,    \* flat day
      <<4, 6, 4, 6>>,    \* up day
      <<4, 4, 2, 3>> }   \* down day

Signals == {-1, 0, 1}

Row(date, s, sig) ==
    [Date |-> date, Open |-> R(s[1]), High |-> R(s[2]), Low |-> R(s[3]),
     Close |-> R(s[4]), ML_Signal |-> sig]

(* The bar sequences of length n: row k carries date k (load_eurusd sorts  *)
(* by date, so dates are distinct and increasing).                         *)
Frames(n) ==
    { [k \in 1..n |-> Row(k, f[k][1], f[k][2])] : f \in [1..n -> Shapes \X Signals] }

(* A BacktestConfig.  main.py always passes one, built from the command    *)
(* line without any check, so values outside the documented domain reach   *)
(* run_backtest; the default-config branch (lines 52-53) is not drawn.     *)
Cfg(cap, psz, sl, pips, lev) ==
    [initial_capital |-> cap, position_size_pct |-> psz, stop_loss_pct |-> sl,
     take_profit_pct |-> None, transaction_cost_pips |-> pips, leverage |-> lev]

ValidConfigs ==
    { Cfg(R(8), Q(1, 2), Q(1, 2), R(0), R(1)),
      Cfg(R(8), Q(1, 2), Q(1, 4), R(10000), R(1)),
      Cfg(R(8), R(1), Q(1, 2), R(10000), R(2)) }

InvalidConfigs ==
    { Cfg(R(0), Q(1, 2), Q(1, 2), R(0), R(1)),
      Cfg(R(8), R(0), Q(1, 2), R(0), R(1)),
      Cfg(R(8), Q(1, 2), Q(-1, 4), R(0), R(1)),
      Cfg(R(8), Q(1, 2), Q(1, 2), R(0), R(-1)) }

Configs == ValidConfigs \cup InvalidConfigs

-----------------------------------------------------------------------------
(* run_backtest, one loop iteration (lines 63-105). *)

(* Variant: a flat signal 0 taken as Long (signal >= 0). *)
IsLong_NonNegative(signal) == signal >= 0

IsLong(signal) == signal = 1

position_value(cap, cfg) ==
    RMul(RMul(cap, cfg.position_size_pct), cfg.leverage)

position_size(cap, cfg, entry_price) ==
    RDiv(position_value(cap, cfg), entry_price)

stop_price(signal, entry_price, cfg) ==
    IF IsLong(signal)
    THEN RMul(entry_price, RSub(ROne, cfg.stop_loss_pct))
    ELSE RMul(entry_price, RAdd(ROne, cfg.stop_loss_pct))

(* Variant: the stop triggers only when the bar trades through it. *)
stopped_out_Strict(signal, next_row, stop) ==
    IF IsLong(signal)
    THEN RLt(next_row.Low, stop)
    ELSE RGt(next_row.High, stop)

stopped_out(signal, next_row, stop) ==
    IF IsLong(signal)
    THEN RLe(next_row.Low, stop)
    ELSE RGe(next_row.High, stop)

actual_exit(stopped, stop, exit_price) ==
    IF stopped THEN stop ELSE exit_price

transaction_cost(cfg) == RMul(cfg.transaction_cost_pips, pip)

price_move(signal, exit, entry_price, cfg) ==
    IF IsLong(signal)
    THEN RSub(RSub(exit, entry_price), transaction_cost(cfg))
    ELSE RSub(RSub(entry_price, exit), transaction_cost(cfg))

(* The Trade appended at lines 94-103 for the pair (row, next_row). *)
MakeTrade(row, next_row, cap, cfg) ==
    LET signal == row.ML_Signal
        entry_price == next_row.Open
        stop == stop_price(signal, entry_price, cfg)
        stopped == stopped_out(signal, next_row, stop)
        exit == actual_exit(stopped, stop, next_row.Close)
        size == position_size(cap, cfg, entry_price)
    IN  [date |-> next_row.Date,
         direction |-> signal,
         entry_price |-> entry_price,
         exit_price |-> exit,
         stop_loss_price |-> stop,
         pnl_usd |-> RMul(size, price_move(signal, exit, entry_price, cfg)),
         stopped_out |-> stopped,
         position_size |-> size]

(* Variant: the pnl is booked with the wrong sign. *)
NewCapital_Minus(cap, pnl) == RSub(cap, pnl)

(* capital += pnl_usd (line 92). *)
NewCapital(cap, pnl) == RAdd(cap, pnl)

(* Variant: the loop stops one pair early, range(len(df) - 2). *)
LoopRange_Short(n) == 0..(n - 3)

(* range(len(df) - 1) (line 63). *)
LoopRange(n) == 0..(n - 2)

LoopStep ==
    /\ pc = "loop"
    /\ i \in LoopRange(Len(df))
    /\ LET t == MakeTrade(df[i + 1], df[i + 2], capital, config)
           c == NewCapital(capital, t.pnl_usd)
       IN  /\ capital' = c
           /\ trades' = Append(trades, t)
           /\ equity_curve' = Append(equity_curve, [Date |-> df[i + 2].Date, Equity |-> c])
    /\ i' = i + 1
    /\ UNCHANGED <<call, df, config, pc, equity_df, trades_df, metrics, error, result>>

-----------------------------------------------------------------------------
(* The pandas tables.  A table is its set of columns and its rows;         *)
(* pd.DataFrame([]) has no columns at all.                                 *)

Raise(kind, line) == [kind |-> kind, line |-> line]

DataFrame(list) ==
    [columns |-> IF list = <<>> THEN {} ELSE DOMAIN list[1], rows |-> list]

(* Variant: set_index accepts a frame without the column. *)
set_index_Lenient(frame, col, line) ==
    [raised |-> None,
     frame |-> [columns |-> frame.columns \ {col}, index |-> col,
                rows |-> frame.rows]]

(* frame.set_index(col): KeyError when the frame has no such column. *)
set_index(frame, col, line) ==
    IF col \notin frame.columns
    THEN [raised |-> Raise("KeyError", line), frame |-> None]
    ELSE [raised |-> None,
          frame |-> [columns |-> frame.columns \ {col}, index |-> col,
                     rows |-> frame.rows]]

(* One row of trades_df (lines 110-119). *)
TradeRow(t) ==
    [Date |-> t.date,
     Direction |-> IF t.direction = 1 THEN "LONG" ELSE "SHORT",
     Entry |-> t.entry_price,
     Exit |-> t.exit_price,
     Stop_Loss |-> t.stop_loss_price,
     PnL_USD |-> t.pnl_usd,
     Stopped_Out |-> t.stopped_out,
     Position_EUR |-> t.position_size]

-----------------------------------------------------------------------------
(* compute_metrics (lines 133-177). *)

TradingDays == 252

SelectPos(pnl) == SelectSeq(pnl, LAMBDA x : RGt(x, RZero))
SelectNonPos(pnl) == SelectSeq(pnl, LAMBDA x : RLe(x, RZero))

Mean(s) == RDiv(RSum(s), R(Len(s)))

win_rate(pnl) ==
    IF Len(pnl) > 0 THEN Num(Q(Len(SelectPos(pnl)), Len(pnl))) ELSE Num(RZero)

avg_win(pnl) ==
    IF Len(SelectPos(pnl)) > 0 THEN Num(Mean(SelectPos(pnl))) ELSE Num(RZero)

avg_loss(pnl) ==
    IF Len(SelectNonPos(pnl)) > 0 THEN Num(Mean(SelectNonPos(pnl))) ELSE Num(RZero)

profit_factor(pnl) ==
    IF Len(SelectNonPos(pnl)) > 0
    THEN FDiv(RSum(SelectPos(pnl)), RAbs(RSum(SelectNonPos(pnl))))
    ELSE Inf

(* The base and the exponent of the power at line 158; the annualized      *)
(* return is base ^ (exp_num / exp_den) - 1.                               *)
annual_return(equity) ==
    [base |-> FDiv(equity[Len(equity)], equity[1]),
     exp_num |-> TradingDays,
     exp_den |-> Len(equity)]

CountTrue(flags) == Len(SelectSeq(flags, LAMBDA b : b))

(* The values of compute_metrics' locals when it reaches its return        *)
(* statement, or the exception it raises before.  max_drawdown, sharpe and *)
(* calmar (lines 148-155, 159) raise nothing on any table and are not      *)
(* represented; the returned dict formats these values as strings.         *)
compute_metrics(tdf, edf, cfg) ==
    IF "PnL_USD" \notin tdf.columns
    THEN [raised |-> Raise("KeyError", 135), values |-> None]
    ELSE IF "Equity" \notin edf.columns
    THEN [raised |-> Raise("KeyError", 136), values |-> None]
    ELSE IF edf.rows = <<>>
    THEN [raised |-> Raise("IndexError", 158), values |-> None]
    ELSE IF "Stopped_Out" \notin tdf.columns
    THEN [raised |-> Raise("KeyError", 161), values |-> None]
    ELSE
      LET pnl == [k \in 1..Len(tdf.rows) |-> tdf.rows[k].PnL_USD]
          equity == [k \in 1..Len(edf.rows) |-> edf.rows[k].Equity]
          total_trades == Len(tdf.rows)
          stop_outs == CountTrue([k \in 1..Len(tdf.rows) |-> tdf.rows[k].Stopped_Out])
      IN  [raised |-> None,
           values |->
             [total_trades |-> total_trades,
              win_rate |-> win_rate(pnl),
              total_pnl |-> RSum(pnl),
              total_return |->
                  FDiv(RSub(equity[Len(equity)], cfg.initial_capital),
                       cfg.initial_capital),
              annual_return |-> annual_return(equity),
              profit_factor |-> profit_factor(pnl),
              avg_win |-> avg_win(pnl),
              avg_loss |-> avg_loss(pnl),
              stop_outs |-> stop_outs,
              stop_out_rate |-> FDiv(R(stop_outs), R(total_trades))]]

-----------------------------------------------------------------------------
(* run_backtest after the loop: the tables (lines 107-121), the call of    *)
(* compute_metrics (line 123) and the return (lines 125-130).              *)

BuildFrames ==
    /\ call = "run_backtest"
    /\ pc = "loop"
    /\ i \notin LoopRange(Len(df))
    /\ LET e == set_index(DataFrame(equity_curve), "Date", 107)
       IN  IF e.raised # None
           THEN /\ error' = e.raised
                /\ pc' = "raised"
                /\ UNCHANGED <<equity_df, trades_df>>
           ELSE /\ equity_df' = e.frame
                /\ trades_df' = DataFrame([k \in 1..Len(trades) |-> TradeRow(trades[k])])
                /\ pc' = "metrics"
                /\ UNCHANGED error
    /\ UNCHANGED <<call, df, config, i, capital, trades, equity_curve, metrics, result>>

CallMetrics ==
    /\ pc = "metrics"
    /\ LET m == compute_metrics(trades_df, equity_df, config)
       IN  IF m.raised # None
           THEN /\ error' = m.raised
                /\ pc' = "raised"
                /\ UNCHANGED <<metrics, result>>
           ELSE /\ metrics' = m.values
                /\ pc' = "returned"
                /\ result' = IF call = "run_backtest"
                             THEN [trades |-> trades_df, equity |-> equity_df,
                                   metrics |-> m.values, config |-> config]
                             ELSE m.values
                /\ UNCHANGED error
    /\ UNCHANGED <<call, df, config, i, capital, trades, equity_curve, equity_df, trades_df>>

-----------------------------------------------------------------------------
(* The ledgers handed to compute_metrics when it is called on its own: n   *)
(* rows with the columns it reads, and the matching equity curve (the      *)
(* initial capital plus the running sum of the pnl).  An empty ledger is   *)
(* either a table with its columns and no rows, or pd.DataFrame([]).       *)

PnLs == {R(-1), R(0), R(2)}

LedgerColumns == {"Date", "PnL_USD", "Stopped_Out"}

Ledgers(n) ==
    { [k \in 1..n |-> [Date |-> k, PnL_USD |-> f[k][1], Stopped_Out |-> f[k][2]]] :
        f \in [1..n -> PnLs \X BOOLEAN] }

RECURSIVE RunningEquity(_, _)
RunningEquity(cap, rows) ==
    IF rows = <<>> THEN <<>>
    ELSE LET c == RAdd(cap, rows[1].PnL_USD)
         IN  <<[Date |-> rows[1].Date, Equity |-> c]>> \o RunningEquity(c, Tail(rows))

InitRun ==
    /\ call = "run_backtest"
    /\ df \in UNION { Frames(n) : n \in 0..MaxBars }
    /\ config \in Configs
    /\ pc = "loop"
    /\ i = 0
    /\ capital = config.initial_capital
    /\ trades = <<>>
    /\ equity_curve = <<>>
    /\ equity_df = None
    /\ trades_df = None
    /\ metrics = None
    /\ error = None
    /\ result = None

InitMetrics ==
    /\ call = "compute_metrics"
    /\ df = <<>>
    /\ config \in Configs
    /\ pc = "metrics"
    /\ i = 0
    /\ capital = config.initial_capital
    /\ trades = <<>>
    /\ equity_curve = <<>>
    /\ \E n \in 0..MaxLedger : \E rows \in Ledgers(n) : \E cols \in BOOLEAN :
          /\ (n > 0 => cols)
          /\ trades_df = [columns |-> IF cols THEN LedgerColumns ELSE {}, rows |-> rows]
          /\ equity_df = [columns |-> IF cols THEN {"Equity"} ELSE {}, index |-> "Date",
                          rows |-> RunningEquity(config.initial_capital, rows)]
    /\ metrics = None
    /\ error = None
    /\ result = None

Init == InitRun \/ InitMetrics

Next == LoopStep \/ BuildFrames \/ CallMetrics

Spec == Init /\ [][Next]_vars

-----------------------------------------------------------------------------
(* Vocabulary of the properties. *)

InRun == call = "run_backtest"
Built == pc \in {"metrics", "returned"}

PnlOf(rows) == [k \in 1..Len(rows) |-> rows[k].PnL_USD]

(* The equity before the k-th trade. *)
EquityBefore(k) ==
    IF k = 1 THEN config.initial_capital ELSE equity_curve[k - 1].Equity

(* The domain of Config stated in the data model of the specification. *)
InDomain(cfg) ==
    /\ RGt(cfg.initial_capital, RZero)
    /\ RGt(cfg.position_size_pct, RZero)
    /\ RLe(cfg.position_size_pct, ROne)
    /\ RGe(cfg.stop_loss_pct, RZero)
    /\ RGe(cfg.transaction_cost_pips, RZero)
    /\ RGt(cfg.leverage, RZero)

-----------------------------------------------------------------------------
(* C1: in every run of run_backtest, each recorded equity point equals the *)
(* equity before it (initial_capital before the first trade) plus that     *)
(* trade's pnl, so the last equity point equals initial_capital plus the   *)
(* sum of all trade pnls; the same holds of the tables handed out.         *)
C1_CapitalConservation ==
    InRun =>
        /\ Len(equity_curve) = Len(trades)
        /\ \A k \in 1..Len(equity_curve) :
              equity_curve[k].Equity = RAdd(EquityBefore(k), trades[k].pnl_usd)
        /\ capital = RAdd(config.initial_capital,
                          RSum([k \in 1..Len(trades) |-> trades[k].pnl_usd]))
        /\ Built =>
              /\ Len(equity_df.rows) = Len(trades_df.rows)
              /\ equity_df.rows[Len(equity_df.rows)].Equity =
                    RAdd(config.initial_capital, RSum(PnlOf(trades_df.rows)))

C1_Witness ==
    /\ InRun
    /\ pc = "returned"
    /\ Len(trades) = 2
    /\ trades[1].pnl_usd # RZero
    /\ trades[2].pnl_usd # RZero
    /\ trades[1].pnl_usd # trades[2].pnl_usd

(* C2: for N >= 2 bars run_backtest ends with exactly N-1 trades and N-1   *)
(* equity points, in bar order, the k-th of each dated as bar k+1, and     *)
(* raises nothing.                                                         *)
C2_SequenceLength ==
    (InRun /\ Len(df) >= 2) =>
        /\ pc # "raised"
        /\ Built =>
              /\ Len(trades_df.rows) = Len(df) - 1
              /\ Len(equity_df.rows) = Len(df) - 1
              /\ \A k \in 1..(Len(df) - 1) :
                    /\ trades_df.rows[k].Date = df[k + 1].Date
                    /\ equity_df.rows[k].Date = df[k + 1].Date

C2_Witness ==
    /\ InRun
    /\ pc = "returned"
    /\ Len(df) = 3
    /\ Len(result.trades.rows) = 2
    /\ Len(result.equity.rows) = 2

(* C3: for the trade on the pair (bar k, bar k+1): a Long trade is stopped *)
(* out exactly when Low(k+1) <= entry * (1 - stop_loss_pct), a Short trade *)
(* exactly when High(k+1) >= entry * (1 + stop_loss_pct), and the exit     *)
(* price is the stop price when stopped out and Close(k+1) otherwise.      *)
C3_StopOut ==
    InRun =>
        \A k \in 1..Len(trades) :
            LET t == trades[k]
                nxt == df[k + 1]
                long_stop == RMul(t.entry_price, RSub(ROne, config.stop_loss_pct))
                short_stop == RMul(t.entry_price, RAdd(ROne, config.stop_loss_pct))
                stop == IF t.direction = 1 THEN long_stop ELSE short_stop
            IN  /\ t.direction = 1 => (t.stopped_out <=> RLe(nxt.Low, long_stop))
                /\ t.direction # 1 => (t.stopped_out <=> RGe(nxt.High, short_stop))
                /\ t.exit_price = IF t.stopped_out THEN stop ELSE nxt.Close

C3_Witness ==
    /\ InRun
    /\ Len(trades) = 2
    /\ trades[1].direction = 1
    /\ trades[1].stopped_out
    /\ trades[1].exit_price # df[2].Close
    /\ trades[1].stop_loss_price = df[2].Low
    /\ trades[2].direction # 1
    /\ ~trades[2].stopped_out

(* C4: every bar but the last yields exactly one trade: after i loop steps *)
(* there are i trades, the k-th dated and priced from bar k+1 and directed *)
(* by the signal of bar k: it is traded Long (labelled LONG, stop below    *)
(* the entry, pnl on exit - entry) if and only if that signal is +1, and   *)
(* Short for every other value, 0 included.                                *)
C4_OneTradePerBar ==
    InRun =>
        /\ Len(trades) = i
        /\ (pc # "loop" /\ Len(df) >= 2) => Len(trades) = Len(df) - 1
        /\ \A k \in 1..Len(trades) :
              LET t == trades[k]
                  sig == df[k].ML_Signal
                  nxt == df[k + 1]
                  cost == RMul(config.transaction_cost_pips, pip)
              IN  /\ t.date = nxt.Date
                  /\ t.entry_price = nxt.Open
                  /\ t.exit_price \in {t.stop_loss_price, nxt.Close}
                  /\ sig = 1 =>
                        /\ TradeRow(t).Direction = "LONG"
                        /\ t.stop_loss_price =
                              RMul(nxt.Open, RSub(ROne, config.stop_loss_pct))
                        /\ t.pnl_usd =
                              RMul(t.position_size,
                                   RSub(RSub(t.exit_price, nxt.Open), cost))
                  /\ sig # 1 =>
                        /\ TradeRow(t).Direction = "SHORT"
                        /\ t.stop_loss_price =
                              RMul(nxt.Open, RAdd(ROne, config.stop_loss_pct))
                        /\ t.pnl_usd =
                              RMul(t.position_size,
                                   RSub(RSub(nxt.Open, t.exit_price), cost))

C4_Witness ==
    /\ InRun
    /\ pc = "returned"
    /\ Len(df) = 3
    /\ df[1].ML_Signal = 0
    /\ df[2].ML_Signal = 1
    /\ df[3].ML_Signal = -1
    /\ result.trades.rows[1].Direction = "SHORT"
    /\ result.trades.rows[2].Direction = "LONG"
    /\ result.trades.rows[1].PnL_USD # RZero

(* C5: with a config outside its domain, run_backtest computes no trade   *)
(* and no equity point and returns nothing: it fails at entry.             *)
C5_InvalidConfigRejected ==
    (InRun /\ ~InDomain(config)) =>
        /\ trades = <<>>
        /\ equity_curve = <<>>
        /\ pc # "returned"

C7_ProfitFactor ==
    (pc = "returned" /\ InDomain(config)) =>
        LET pnl == PnlOf(trades_df.rows)
            gross_loss == RAbs(RSum(SelectNonPos(pnl)))
        IN  IF SelectNonPos(pnl) = <<>>
            THEN /\ metrics.profit_factor = Inf
                 /\ metrics.avg_loss = Num(RZero)
            ELSE /\ gross_loss # RZero
                 /\ metrics.profit_factor = Num(RDiv(RSum(SelectPos(pnl)), gross_loss))

(* C8: on a ledger with zero trades and the matching empty equity curve,   *)
(* compute_metrics returns a report with win rate 0 and a defined value    *)
(* for every ratio and rate, and raises nothing.                           *)
C8_EmptyLedger ==
    (call = "compute_metrics" /\ InDomain(config) /\ trades_df.rows = <<>>
        /\ pc # "metrics") =>
        /\ pc = "returned"
        /\ error = None
        /\ metrics.win_rate = Num(RZero)
        /\ metrics.stop_out_rate # NaN
        /\ metrics.profit_factor # NaN
        /\ metrics.annual_return.base # NaN

(* C9: the annualized return of a ledger of n >= 1 trades is               *)
(* (final_equity / initial_capital) ^ (252 / n) - 1.                       *)
C9_AnnualizedReturn ==
    (pc = "returned" /\ InDomain(config)) =>
        LET n == Len(trades_df.rows)
            final_equity == equity_df.rows[n].Equity
        IN  /\ metrics.annual_return.base =
                  Num(RDiv(final_equity, config.initial_capital))
            /\ metrics.annual_return.exp_num = 252
            /\ metrics.annual_return.exp_den = n

(* C10: for every trade taken on positive capital, with stop_loss_pct >= 0,*)
(* transaction cost >= 0 and Low <= Close <= High on the traded bar:       *)
(* pnl >= -(position_size * (entry * stop_loss_pct + cost)), with equality *)
(* exactly when the trade is stopped out; a stopped-out trade has no       *)
(* positive pnl; and the capital stays positive after the trade when       *)
(* position_size_pct * leverage * (stop_loss_pct + cost / entry) < 1.      *)
StopLossCaps(k) ==
    LET t == trades[k]
        nxt == df[k + 1]
        cost == RMul(config.transaction_cost_pips, pip)
        floor == RNeg(RMul(t.position_size,
                           RAdd(RMul(t.entry_price, config.stop_loss_pct), cost)))
        exposure == RMul(RMul(config.position_size_pct, config.leverage),
                         RAdd(config.stop_loss_pct, RDiv(cost, t.entry_price)))
    IN  (/\ RGt(EquityBefore(k), RZero)
         /\ RGe(config.stop_loss_pct, RZero)
         /\ RGe(cost, RZero)
         /\ RLe(nxt.Low, nxt.Close)
         /\ RLe(nxt.Close, nxt.High)) =>
            /\ RGe(t.pnl_usd, floor)
            /\ (t.pnl_usd = floor) <=> t.stopped_out
            /\ t.stopped_out => RLe(t.pnl_usd, RZero)
            /\ RLt(exposure, ROne) => RGt(equity_curve[k].Equity, RZero)

C10_StopLossCapsLoss ==
    InRun => \A k \in 1..Len(trades) : StopLossCaps(k)

(* The same bound over the configs of the stated domain only: it holds     *)
(* there, so C10 fails on no other ground than a config that C5 has the    *)
(* engine reject.                                                          *)
C10_StopLossCapsLossInDomain ==
    (InRun /\ InDomain(config)) => \A k \in 1..Len(trades) : StopLossCaps(k)

C10_InDomainWitness ==
    /\ InRun
    /\ InDomain(config)
    /\ Len(trades) = 2
    /\ trades[1].stopped_out
    /\ RLe(equity_curve[1].Equity, RZero)
    /\ RLt(trades[1].pnl_usd, RZero)

=============================================================================
